---- MODULE Spec2Model ----
(***************************************************************************)
(* Short.ly: the Redis fixed-window rate limiter (middleware/rateLimit),   *)
(* the request handlers of controllers.ts and the routes that wire them.   *)
(* Every action is the code a request runs between two awaits; requests    *)
(* interleave at the awaits, as they do on the Node event loop.            *)
(***************************************************************************)
EXTENDS Integers, Sequences, FiniteSets

\* ---------------------------------------------------------------- bounds
MaxInFlight == 2      \* requests being processed at the same time (K)
MaxLimit    == 2      \* RATE_LIMIT_MAX_REQUESTS ranges over 1..MaxLimit
MaxClicks   == 2      \* redirects that find their record
MaxDecided  == MaxLimit + 2   \* limiter decisions counted per identity (saturating)

Slots      == 1..MaxInFlight
Identities == {"ip1", "ip2"}
Codes      == {"c1", "c2"}
\* "" stands for every falsy value of the body field (undefined, null, "")
LongUrls    == {"", "u1", "u2"}
CustomCodes == {""} \cup Codes
Kinds       == {"shorten", "redirect", "stats", "links"}
\* the files of ../public that express.static serves
StaticFiles == {"script.js"}

\* redis.get of a key that does not exist resolves to null
Nil == -1

VARIABLES
  MAX_REQUESTS,  \* the limiter's cap, read from the environment at load
  redis,         \* Counter Store: key (identity) -> [value, ttl]
  shortenedURL,  \* URL Store: the table, rows in creation order
  pending,       \* click updates started and not yet settled, per code
  pc,            \* slot -> the await the request is suspended at
  req,           \* slot -> the request (route, ip, params)
  body,          \* slot -> shortenUrl's locals long_url, custom_code
  current,       \* slot -> rateLimiter's local `current`
  short_code,    \* slot -> shortenUrl's local `short_code`
  error,         \* slot -> the error a catch block caught ("" none)
  admitted,      \* slot -> rateLimiter called next()
  res,           \* slot -> the response sent ([status |-> 0]: none yet)
  decided,       \* identity -> limiter decisions since the key last expired
  found,         \* code -> redirects that found the record
  lost,          \* code -> click updates that failed
  created        \* the <<short_code, long_url>> pairs answered 201

vars == <<MAX_REQUESTS, redis, shortenedURL, pending, pc, req, body, current,
          short_code, error, admitted, res, decided, found, lost, created>>

store  == <<redis, shortenedURL, pending>>
ghosts == <<decided, found, lost, created>>

NoKey  == [value |-> Nil, ttl |-> FALSE]
NoReq  == [kind |-> "", ip |-> "", shortCode |-> ""]
NoBody == [long_url |-> "", custom_code |-> ""]
NoRes  == [status |-> 0, body |-> ""]

Init ==
  /\ MAX_REQUESTS \in 1..MaxLimit
  /\ redis = [i \in Identities |-> NoKey]
  /\ shortenedURL = << >>
  /\ pending = [c \in Codes |-> 0]
  /\ pc = [r \in Slots |-> "idle"]
  /\ req = [r \in Slots |-> NoReq]
  /\ body = [r \in Slots |-> NoBody]
  /\ current = [r \in Slots |-> Nil]
  /\ short_code = [r \in Slots |-> ""]
  /\ error = [r \in Slots |-> ""]
  /\ admitted = [r \in Slots |-> FALSE]
  /\ res = [r \in Slots |-> NoRes]
  /\ decided = [i \in Identities |-> 0]
  /\ found = [c \in Codes |-> 0]
  /\ lost = [c \in Codes |-> 0]
  /\ created = {}

\* ------------------------------------------------------- Counter Store
INCR_ByTwo(k) == [value |-> IF k.value = Nil THEN 2 ELSE k.value + 2, ttl |-> k.ttl]

\* INCR: a missing key counts from 0 and gets no expiry; an expiry is kept
INCR(k) == [value |-> IF k.value = Nil THEN 1 ELSE k.value + 1, ttl |-> k.ttl]

\* EXPIRE on the key INCR has just written
EXPIRE(k) == [k EXCEPT !.ttl = TRUE]

\* `if (!current)`: the transaction carries an EXPIRE
ExpireQueued(cur) == cur = Nil

MultiExec_FirstOnly(k, cur) == IF ExpireQueued(cur) THEN EXPIRE(INCR(k)) ELSE k

\* the MULTI/EXEC transaction rateLimiter queues: INCR, and EXPIRE if(!current)
MultiExec(k, cur) == IF ExpireQueued(cur) THEN EXPIRE(INCR(k)) ELSE INCR(k)

LimitExceeded_OffByOne(cur) == cur # Nil /\ cur > MAX_REQUESTS

\* `current && parseInt(current) >= MAX_REQUESTS`
LimitExceeded(cur) == cur # Nil /\ cur >= MAX_REQUESTS

\* ----------------------------------------------------------- URL Store
RowsOf(rows, code) == {n \in 1..Len(rows) : rows[n].short_code = code}

\* findUnique({ where: { short_code } }): the row, or null (<< >>)
findUnique(rows, code) ==
  IF RowsOf(rows, code) = {} THEN << >>
  ELSE << rows[CHOOSE n \in RowsOf(rows, code) : TRUE] >>

UniqueViolation_NoIndex(rows, code) == FALSE

\* the unique index on short_code refuses a second row with the same code
UniqueViolation(rows, code) == RowsOf(rows, code) # {}

\* create({ data: { long_url, short_code } }); the schema's defaults fill
\* click_count and last_clicked_at
create(rows, long_url, code) ==
  Append(rows, [short_code |-> code, long_url |-> long_url,
                click_count |-> 0, last_clicked_at |-> "null"])

ClickData_NoTimestamp(row) == [row EXCEPT !.click_count = @ + 1]

ClickData_Overwrite(row) ==
  [row EXCEPT !.click_count = @ + 1, !.last_clicked_at = "Date", !.long_url = ""]

ClickData_StaleWrite(row) == [row EXCEPT !.click_count = 1, !.last_clicked_at = "Date"]

\* update({ where: { short_code }, data: { click_count: { increment: 1 },
\* last_clicked_at: new Date() } })
ClickData(row) == [row EXCEPT !.click_count = @ + 1, !.last_clicked_at = "Date"]

update(rows, code) ==
  [n \in 1..Len(rows) |-> IF rows[n].short_code = code THEN ClickData(rows[n]) ELSE rows[n]]

\* ------------------------------------------------------------ requests
Set(f, r, v) == [f EXCEPT ![r] = v]

\* the response ends the handler; its locals go out of scope
Respond(r, status, payload, err, adm) ==
  /\ res' = Set(res, r, [status |-> status, body |-> payload])
  /\ pc' = Set(pc, r, "done")
  /\ current' = Set(current, r, Nil)
  /\ short_code' = Set(short_code, r, "")
  /\ error' = Set(error, r, err)
  /\ admitted' = Set(admitted, r, adm)
  /\ UNCHANGED req

\* the request suspends at its next await
Await(r, at, cur, code, err, adm) ==
  /\ pc' = Set(pc, r, at)
  /\ current' = Set(current, r, cur)
  /\ short_code' = Set(short_code, r, code)
  /\ error' = Set(error, r, err)
  /\ admitted' = Set(admitted, r, adm)
  /\ UNCHANGED <<res, req>>

shortenUrl_LookupFirst(r, err, b) ==
  /\ body' = Set(body, r, b)
  /\ IF b.custom_code # ""
       THEN Await(r, "shorten_find", Nil, b.custom_code, err, TRUE)
       ELSE IF b.long_url = ""
         THEN Respond(r, 400, "", err, TRUE)
         ELSE \E id \in Codes : Await(r, "shorten_create", Nil, id, err, TRUE)

shortenUrl_NoLookup(r, err, b) ==
  /\ body' = Set(body, r, b)
  /\ IF b.long_url = ""
       THEN Respond(r, 400, "", err, TRUE)
       ELSE \E id \in (IF b.custom_code # "" THEN {b.custom_code} ELSE Codes) :
              Await(r, "shorten_create", Nil, id, err, TRUE)

\* shortenUrl from its entry to its first await: it reads the body (b),
\* validates it, then takes the custom code or nanoid(6)
shortenUrl(r, err, b) ==
  /\ body' = Set(body, r, b)
  /\ IF b.long_url = ""
       THEN Respond(r, 400, "", err, TRUE)
       ELSE IF b.custom_code # ""
         THEN Await(r, "shorten_find", Nil, b.custom_code, err, TRUE)
         ELSE \E id \in Codes : Await(r, "shorten_create", Nil, id, err, TRUE)

\* next(): the router hands the request to shortenUrl
next(r, err, Q) == \E b \in Q.bodies : shortenUrl(r, err, b)

\* redirects that found their record or may still find it
Clicks ==
  found["c1"] + found["c2"]
    + Cardinality({r \in Slots : pc[r] = "redirect_find"})

\* the requests clients send: POST /api/shorten (from an address),
\* GET /:shortCode, GET /api/stats/:shortCode, GET /api/links
Posts(ips) == {[kind |-> "shorten", ip |-> i, shortCode |-> ""] : i \in ips}

Gets(kinds) == {[kind |-> k, ip |-> "", shortCode |-> c] : k \in kinds, c \in Codes}

Links == {[kind |-> "links", ip |-> "", shortCode |-> ""]}

\* GET /:shortCode whose path names a file of ../public
StaticGets == {[kind |-> "redirect", ip |-> "", shortCode |-> f] : f \in StaticFiles}

\* the bodies of POST /api/shorten
Bodies == [long_url : LongUrls, custom_code : CustomCodes]

\* a workload: the requests that arrive and the bodies they post
Requests ==
  [arrivals |-> Posts(Identities) \cup Gets({"redirect", "stats"}) \cup Links
                 \cup StaticGets,
   bodies |-> Bodies]

Route_LimitAll(q) == "rl_get"

\* express.static runs before the router and answers the paths that name
\* a file; routes.ts: the first handler of the route the request matches
Route(q) ==
  CASE q.kind = "shorten"  -> "rl_get"
    [] q.kind = "redirect" -> IF q.shortCode \in StaticFiles THEN "static_send"
                                                             ELSE "redirect_find"
    [] q.kind = "stats"    -> "stats_find"
    [] q.kind = "links"    -> "links_find"

\* an HTTP request arrives and is routed
Receive(r, Q) ==
  /\ pc[r] = "idle"
  /\ \E q \in Q.arrivals :
       /\ q.kind = "redirect" => Clicks < MaxClicks
       /\ req' = Set(req, r, q)
       /\ pc' = Set(pc, r, Route(q))
  /\ UNCHANGED <<MAX_REQUESTS, store, body, current, short_code, error, admitted,
                 res, ghosts>>

\* the connection of an answered request closes
Close(r) ==
  /\ pc[r] = "done"
  /\ pc' = Set(pc, r, "idle")
  /\ req' = Set(req, r, NoReq)
  /\ body' = Set(body, r, NoBody)
  /\ res' = Set(res, r, NoRes)
  /\ error' = Set(error, r, "")
  /\ admitted' = Set(admitted, r, FALSE)
  /\ UNCHANGED <<MAX_REQUESTS, store, current, short_code, ghosts>>

\* express.static sends the file; the router is never reached
ServeStatic(r) ==
  /\ pc[r] = "static_send"
  /\ Respond(r, 200, "file", "", FALSE)
  /\ UNCHANGED <<body, MAX_REQUESTS, store, ghosts>>

\* ------------------------------------------------- rateLimiter (Redis)
Decided(ip) ==
  decided' = [decided EXCEPT ![ip] = IF @ < MaxDecided THEN @ + 1 ELSE @]

RlGet_CountRejected(r) ==
  /\ pc[r] = "rl_get"
  /\ LET cur == redis[req[r].ip].value IN
       IF LimitExceeded(cur)
         THEN /\ Respond(r, 429, "", "", FALSE)
              /\ redis' = [redis EXCEPT ![req[r].ip] = EXPIRE(INCR(@))]
              /\ Decided(req[r].ip)
         ELSE /\ Await(r, "rl_multi", cur, "", "", FALSE)
              /\ UNCHANGED <<redis, decided>>
  /\ UNCHANGED <<MAX_REQUESTS, shortenedURL, pending, body, found, lost, created>>

\* `await redis.get(key)` resolves, then the limit check
RlGet(r) ==
  /\ pc[r] = "rl_get"
  /\ LET cur == redis[req[r].ip].value IN
       IF LimitExceeded(cur)
         THEN /\ Respond(r, 429, "", "", FALSE)
              /\ Decided(req[r].ip)
         ELSE /\ Await(r, "rl_multi", cur, "", "", FALSE)
              /\ UNCHANGED decided
  /\ UNCHANGED <<MAX_REQUESTS, store, body, found, lost, created>>

FailOpen_Closed(r, Q) == Respond(r, 429, "", "redis", FALSE) /\ UNCHANGED body

\* the catch block: log, then next()
FailOpen(r, Q) == next(r, "redis", Q)

\* `await redis.get(key)` rejects
RlGetFail(r, Q) ==
  /\ pc[r] = "rl_get"
  /\ FailOpen(r, Q)
  /\ Decided(req[r].ip)
  /\ UNCHANGED <<MAX_REQUESTS, store, found, lost, created>>

RlMulti_SharedKey(r, Q) ==
  /\ pc[r] = "rl_multi"
  /\ redis' = [redis EXCEPT !["ip1"] = MultiExec(@, current[r])]
  /\ next(r, "", Q)
  /\ Decided(req[r].ip)
  /\ UNCHANGED <<MAX_REQUESTS, shortenedURL, pending, found, lost, created>>

\* `await multi.exec()` resolves, then next()
RlMulti(r, Q) ==
  /\ pc[r] = "rl_multi"
  /\ redis' = [redis EXCEPT ![req[r].ip] = MultiExec(@, current[r])]
  /\ next(r, "", Q)
  /\ Decided(req[r].ip)
  /\ UNCHANGED <<MAX_REQUESTS, shortenedURL, pending, found, lost, created>>

\* `await multi.exec()` rejects: the transaction ran and its reply was
\* lost, or it never ran
RlMultiFail(r, Q) ==
  /\ pc[r] = "rl_multi"
  /\ \E ran \in BOOLEAN :
       redis' = IF ran THEN [redis EXCEPT ![req[r].ip] = MultiExec(@, current[r])]
                       ELSE redis
  /\ FailOpen(r, Q)
  /\ Decided(req[r].ip)
  /\ UNCHANGED <<MAX_REQUESTS, shortenedURL, pending, found, lost, created>>

locals == <<pc, req, body, current, short_code, error, admitted, res>>

\* Redis drops a key whose time to live has run out
Expire(ip) ==
  /\ redis[ip].value # Nil
  /\ redis[ip].ttl
  /\ redis' = [redis EXCEPT ![ip] = NoKey]
  /\ decided' = [decided EXCEPT ![ip] = 0]
  /\ UNCHANGED <<MAX_REQUESTS, shortenedURL, pending, locals, found, lost, created>>

\* ---------------------------------------------------------- shortenUrl
InternalServerError_NotFound(r, what) == Respond(r, 404, "", what, admitted[r])

\* the outer catch of a handler: log, 500
InternalServerError(r, what) == Respond(r, 500, "", what, admitted[r])

\* `await findUnique` of the custom code resolves
ShortenFind(r) ==
  /\ pc[r] = "shorten_find"
  /\ LET existing == findUnique(shortenedURL, short_code[r]) IN
       IF existing # << >>
         THEN Respond(r, 409, "", error[r], admitted[r])
         ELSE Await(r, "shorten_create", Nil, short_code[r], error[r], admitted[r])
  /\ UNCHANGED <<body, MAX_REQUESTS, store, ghosts>>

ShortenFindFail(r) ==
  /\ pc[r] = "shorten_find"
  /\ InternalServerError(r, "db")
  /\ UNCHANGED <<body, MAX_REQUESTS, store, ghosts>>

ShortenCreate_Overwrite(r) ==
  /\ pc[r] = "shorten_create"
  /\ shortenedURL' =
       IF UniqueViolation(shortenedURL, short_code[r])
         THEN [n \in 1..Len(shortenedURL) |->
                 IF shortenedURL[n].short_code = short_code[r]
                   THEN [shortenedURL[n] EXCEPT !.long_url = body[r].long_url]
                   ELSE shortenedURL[n]]
         ELSE create(shortenedURL, body[r].long_url, short_code[r])
  /\ Respond(r, 201, short_code[r], error[r], admitted[r])
  /\ created' = created \cup {<<short_code[r], body[r].long_url>>}
  /\ UNCHANGED <<body, MAX_REQUESTS, redis, pending, decided, found, lost>>

\* `await create` settles: the row is inserted and 201 sent, or the unique
\* index rejects it (P2002) and the catch answers
ShortenCreate(r) ==
  /\ pc[r] = "shorten_create"
  /\ IF UniqueViolation(shortenedURL, short_code[r])
       THEN /\ InternalServerError(r, "P2002")
            /\ UNCHANGED <<shortenedURL, created>>
       ELSE /\ shortenedURL' = create(shortenedURL, body[r].long_url, short_code[r])
            /\ Respond(r, 201, shortenedURL'[Len(shortenedURL')].short_code,
                       error[r], admitted[r])
            /\ created' = created \cup {<<short_code[r], body[r].long_url>>}
  /\ UNCHANGED <<body, MAX_REQUESTS, redis, pending, decided, found, lost>>

ShortenCreateFail(r) ==
  /\ pc[r] = "shorten_create"
  /\ InternalServerError(r, "db")
  /\ UNCHANGED <<body, MAX_REQUESTS, store, ghosts>>

\* --------------------------------------------------------- redirectUrl
RedirectFind_UpdateFirst(r) ==
  /\ pc[r] = "redirect_find"
  /\ pending' = [pending EXCEPT ![req[r].shortCode] = @ + 1]
  /\ found' = [found EXCEPT ![req[r].shortCode] = @ + 1]
  /\ LET url == findUnique(shortenedURL, req[r].shortCode) IN
       IF url = << >> THEN Respond(r, 404, "", "", FALSE)
                      ELSE Respond(r, 302, url[1].long_url, "", FALSE)
  /\ UNCHANGED <<body, MAX_REQUESTS, redis, shortenedURL, decided, lost, created>>

\* `await findUnique` resolves: 404, or start the click update and redirect
RedirectFind(r) ==
  /\ pc[r] = "redirect_find"
  /\ LET url == findUnique(shortenedURL, req[r].shortCode) IN
       IF url = << >>
         THEN /\ Respond(r, 404, "", "", FALSE)
              /\ UNCHANGED <<pending, found>>
         ELSE /\ pending' = [pending EXCEPT ![req[r].shortCode] = @ + 1]
              /\ found' = [found EXCEPT ![req[r].shortCode] = @ + 1]
              /\ Respond(r, 302, url[1].long_url, "", FALSE)
  /\ UNCHANGED <<body, MAX_REQUESTS, redis, shortenedURL, decided, lost, created>>

RedirectFindFail(r) ==
  /\ pc[r] = "redirect_find"
  /\ InternalServerError(r, "db")
  /\ UNCHANGED <<body, MAX_REQUESTS, store, ghosts>>

\* the background update runs in the database
ClickUpdate(code) ==
  /\ pending[code] > 0
  /\ pending' = [pending EXCEPT ![code] = @ - 1]
  /\ shortenedURL' = update(shortenedURL, code)
  /\ UNCHANGED <<MAX_REQUESTS, redis, locals, ghosts>>

ClickUpdateFail_Surfaced(code) ==
  /\ pending[code] > 0
  /\ pending' = [pending EXCEPT ![code] = @ - 1]
  /\ lost' = [lost EXCEPT ![code] = @ + 1]
  /\ res' = [r \in Slots |->
               IF req[r].kind = "redirect" /\ req[r].shortCode = code /\ res[r].status = 302
                 THEN [status |-> 500, body |-> ""] ELSE res[r]]
  /\ UNCHANGED <<MAX_REQUESTS, redis, shortenedURL, pc, req, body, current,
                 short_code, error, admitted, decided, found, created>>

\* the background update rejects; .catch logs it
ClickUpdateFail(code) ==
  /\ pending[code] > 0
  /\ pending' = [pending EXCEPT ![code] = @ - 1]
  /\ lost' = [lost EXCEPT ![code] = @ + 1]
  /\ UNCHANGED <<MAX_REQUESTS, redis, shortenedURL, locals, decided, found, created>>

\* ------------------------------------------------ getStats, getAllLinks
StatsFind(r) ==
  /\ pc[r] = "stats_find"
  /\ LET url == findUnique(shortenedURL, req[r].shortCode) IN
       IF url = << >> THEN Respond(r, 404, "", "", FALSE)
                      ELSE Respond(r, 200, url[1].long_url, "", FALSE)
  /\ UNCHANGED <<body, MAX_REQUESTS, store, ghosts>>

StatsFindFail(r) ==
  /\ pc[r] = "stats_find"
  /\ InternalServerError(r, "db")
  /\ UNCHANGED <<body, MAX_REQUESTS, store, ghosts>>

GetAllLinks(r) ==
  /\ pc[r] = "links_find"
  /\ Respond(r, 200, "", "", FALSE)
  /\ UNCHANGED <<body, MAX_REQUESTS, store, ghosts>>

GetAllLinksFail(r) ==
  /\ pc[r] = "links_find"
  /\ InternalServerError(r, "db")
  /\ UNCHANGED <<body, MAX_REQUESTS, store, ghosts>>

\* ------------------------------------------------------- specifications
Next ==
  \/ \E r \in Slots : Receive(r, Requests)
  \/ \E r \in Slots : Close(r)
  \/ \E r \in Slots : ServeStatic(r)
  \/ \E r \in Slots : RlGet(r)
  \/ \E r \in Slots : RlGetFail(r, Requests)
  \/ \E r \in Slots : RlMulti(r, Requests)
  \/ \E r \in Slots : RlMultiFail(r, Requests)
  \/ \E ip \in Identities : Expire(ip)
  \/ \E r \in Slots : ShortenFind(r)
  \/ \E r \in Slots : ShortenFindFail(r)
  \/ \E r \in Slots : ShortenCreate(r)
  \/ \E r \in Slots : ShortenCreateFail(r)
  \/ \E r \in Slots : RedirectFind(r)
  \/ \E r \in Slots : RedirectFindFail(r)
  \/ \E c \in Codes : ClickUpdate(c)
  \/ \E c \in Codes : ClickUpdateFail(c)
  \/ \E r \in Slots : StatsFind(r)
  \/ \E r \in Slots : StatsFindFail(r)
  \/ \E r \in Slots : GetAllLinks(r)
  \/ \E r \in Slots : GetAllLinksFail(r)

Spec == Init /\ [][Next]_vars

\* POST /api/shorten only, from one identity, with a body that fails
\* validation or one that asks for the custom code c1
LimiterRequests ==
  [arrivals |-> Posts({"ip1"}),
   bodies |-> {[long_url |-> "", custom_code |-> ""],
               [long_url |-> "u1", custom_code |-> "c1"]}]

NextLimiter ==
  \/ \E r \in Slots : Receive(r, LimiterRequests)
  \/ \E r \in Slots : Close(r)
  \/ \E r \in Slots : RlGet(r)
  \/ \E r \in Slots : RlGetFail(r, LimiterRequests)
  \/ \E r \in Slots : RlMulti(r, LimiterRequests)
  \/ \E r \in Slots : RlMultiFail(r, LimiterRequests)
  \/ \E ip \in Identities : Expire(ip)
  \/ \E r \in Slots : ShortenFind(r)
  \/ \E r \in Slots : ShortenFindFail(r)
  \/ \E r \in Slots : ShortenCreate(r)
  \/ \E r \in Slots : ShortenCreateFail(r)

\* the rate limiter under concurrent requests, Redis errors and key expiry
SpecLimiter == Init /\ [][NextLimiter]_vars

\* one request at a time: a request arrives when no other is open
Sequential == \A r \in Slots : pc[r] = "idle"

ShortenRequests == [arrivals |-> Posts(Identities), bodies |-> Bodies]

NextSeq ==
  \/ \E r \in Slots : Sequential /\ Receive(r, ShortenRequests)
  \/ \E r \in Slots : Close(r)
  \/ \E r \in Slots : RlGet(r)
  \/ \E r \in Slots : RlMulti(r, ShortenRequests)
  \/ \E r \in Slots : ShortenFind(r)
  \/ \E r \in Slots : ShortenFindFail(r)
  \/ \E r \in Slots : ShortenCreate(r)
  \/ \E r \in Slots : ShortenCreateFail(r)

\* creation requests processed one at a time inside one window, Redis healthy
SpecSeq == Init /\ [][NextSeq]_vars

\* creation requests of one identity with every body, Redis healthy and
\* no key expiring during the run
CreateRequests == [arrivals |-> Posts({"ip1"}), bodies |-> Bodies]

NextShorten ==
  \/ \E r \in Slots : Receive(r, CreateRequests)
  \/ \E r \in Slots : Close(r)
  \/ \E r \in Slots : RlGet(r)
  \/ \E r \in Slots : RlMulti(r, CreateRequests)
  \/ \E r \in Slots : ShortenFind(r)
  \/ \E r \in Slots : ShortenFindFail(r)
  \/ \E r \in Slots : ShortenCreate(r)
  \/ \E r \in Slots : ShortenCreateFail(r)

SpecShorten == Init /\ [][NextShorten]_vars

\* creation requests that all carry a valid long_url and a custom code
CustomRequests ==
  [arrivals |-> Posts({"ip1"}),
   bodies |-> {b \in Bodies : b.long_url # "" /\ b.custom_code # ""}]

NextCustom ==
  \/ \E r \in Slots : Receive(r, CustomRequests)
  \/ \E r \in Slots : Close(r)
  \/ \E r \in Slots : RlGet(r)
  \/ \E r \in Slots : RlMulti(r, CustomRequests)
  \/ \E r \in Slots : ShortenFind(r)
  \/ \E r \in Slots : ShortenFindFail(r)
  \/ \E r \in Slots : ShortenCreate(r)
  \/ \E r \in Slots : ShortenCreateFail(r)

SpecCustom == Init /\ [][NextCustom]_vars

\* redirects of both codes, beside creation requests for the code "c1":
\* "c2" is never created, so its redirects are always answered 404
ClickRequests ==
  [arrivals |-> Posts({"ip1"}) \cup Gets({"redirect"}),
   bodies |-> {[long_url |-> "u1", custom_code |-> "c1"]}]

NextClicks ==
  \/ \E r \in Slots : Receive(r, ClickRequests)
  \/ \E r \in Slots : Close(r)
  \/ \E r \in Slots : RlGet(r)
  \/ \E r \in Slots : RlMulti(r, ClickRequests)
  \/ \E r \in Slots : ShortenFind(r)
  \/ \E r \in Slots : ShortenFindFail(r)
  \/ \E r \in Slots : ShortenCreate(r)
  \/ \E r \in Slots : ShortenCreateFail(r)
  \/ \E r \in Slots : RedirectFind(r)
  \/ \E r \in Slots : RedirectFindFail(r)
  \/ \E c \in Codes : ClickUpdate(c)
  \/ \E c \in Codes : ClickUpdateFail(c)

SpecClicks == Init /\ [][NextClicks]_vars

\* creation requests for the code "c1" with two long URLs and for a code
\* that is also the name of a file of ../public, beside the GETs of both
\* paths; both stores healthy
RoundTripRequests ==
  [arrivals |-> Posts({"ip1"}) \cup {q \in Gets({"redirect"}) : q.shortCode = "c1"}
                 \cup StaticGets,
   bodies |-> {[long_url |-> "u1", custom_code |-> "c1"],
               [long_url |-> "u2", custom_code |-> "c1"]}
              \cup {[long_url |-> "u2", custom_code |-> f] : f \in StaticFiles}]

NextRoundTrip ==
  \/ \E r \in Slots : Receive(r, RoundTripRequests)
  \/ \E r \in Slots : Close(r)
  \/ \E r \in Slots : ServeStatic(r)
  \/ \E r \in Slots : RlGet(r)
  \/ \E r \in Slots : RlMulti(r, RoundTripRequests)
  \/ \E r \in Slots : ShortenFind(r)
  \/ \E r \in Slots : ShortenCreate(r)
  \/ \E r \in Slots : RedirectFind(r)
  \/ \E c \in Codes : ClickUpdate(c)

SpecRoundTrip == Init /\ [][NextRoundTrip]_vars

\* creation requests that compete for the code "c1" with two long URLs,
\* beside redirects of "c1"; both stores healthy
RecordRequests ==
  [arrivals |-> Posts({"ip1"}) \cup {q \in Gets({"redirect"}) : q.shortCode = "c1"},
   bodies |-> {[long_url |-> "u1", custom_code |-> "c1"],
               [long_url |-> "u2", custom_code |-> "c1"]}]

NextRecords ==
  \/ \E r \in Slots : Receive(r, RecordRequests)
  \/ \E r \in Slots : Close(r)
  \/ \E r \in Slots : RlGet(r)
  \/ \E r \in Slots : RlMulti(r, RecordRequests)
  \/ \E r \in Slots : ShortenFind(r)
  \/ \E r \in Slots : ShortenCreate(r)
  \/ \E r \in Slots : RedirectFind(r)
  \/ \E c \in Codes : ClickUpdate(c)

SpecRecords == Init /\ [][NextRecords]_vars

\* creation, redirect and stats requests on the code "c1", with the URL
\* Store failing at any call and the Counter Store at its GET
ErrorRequests ==
  [arrivals |-> Posts({"ip1"})
                 \cup {q \in Gets({"redirect", "stats"}) : q.shortCode = "c1"},
   bodies |-> {[long_url |-> "u1", custom_code |-> "c1"]}]

NextErrors ==
  \/ \E r \in Slots : Receive(r, ErrorRequests)
  \/ \E r \in Slots : Close(r)
  \/ \E r \in Slots : RlGet(r)
  \/ \E r \in Slots : RlGetFail(r, ErrorRequests)
  \/ \E r \in Slots : RlMulti(r, ErrorRequests)
  \/ \E r \in Slots : ShortenFind(r)
  \/ \E r \in Slots : ShortenFindFail(r)
  \/ \E r \in Slots : ShortenCreate(r)
  \/ \E r \in Slots : ShortenCreateFail(r)
  \/ \E r \in Slots : RedirectFind(r)
  \/ \E r \in Slots : RedirectFindFail(r)
  \/ \E c \in Codes : ClickUpdate(c)
  \/ \E r \in Slots : StatsFind(r)
  \/ \E r \in Slots : StatsFindFail(r)

SpecErrors == Init /\ [][NextErrors]_vars

\* creation requests of two identities, all failing validation, with
\* Redis healthy and keys expiring
IdentityRequests ==
  [arrivals |-> Posts(Identities),
   bodies |-> {[long_url |-> "", custom_code |-> ""]}]

NextIdentities ==
  \/ \E r \in Slots : Receive(r, IdentityRequests)
  \/ \E r \in Slots : Close(r)
  \/ \E r \in Slots : RlGet(r)
  \/ \E r \in Slots : RlMulti(r, IdentityRequests)
  \/ \E ip \in Identities : Expire(ip)

SpecIdentities == Init /\ [][NextIdentities]_vars

\* every route, all requests from the address "ip1" and on the code "c1";
\* both stores healthy
ReadRequests ==
  [arrivals |-> Posts({"ip1"})
                 \cup {[kind |-> k, ip |-> "ip1", shortCode |-> "c1"] :
                         k \in {"redirect", "stats"}}
                 \cup {[kind |-> "links", ip |-> "ip1", shortCode |-> ""]},
   bodies |-> {[long_url |-> "u1", custom_code |-> "c1"]}]

NextReads ==
  \/ \E r \in Slots : Receive(r, ReadRequests)
  \/ \E r \in Slots : Close(r)
  \/ \E r \in Slots : RlGet(r)
  \/ \E r \in Slots : RlMulti(r, ReadRequests)
  \/ \E r \in Slots : ShortenFind(r)
  \/ \E r \in Slots : ShortenCreate(r)
  \/ \E r \in Slots : RedirectFind(r)
  \/ \E c \in Codes : ClickUpdate(c)
  \/ \E r \in Slots : StatsFind(r)
  \/ \E r \in Slots : GetAllLinks(r)

SpecReads == Init /\ [][NextReads]_vars

\* ------------------------------------------------------------ the claims
Decisions(r) == decided[req[r].ip]

PastLimiter(r) == req[r].kind = "shorten" /\ pc[r] \in {"shorten_find", "shorten_create", "done"}

\* C1: with requests of one identity processed one at a time inside one
\* window and Redis healthy, the Nth request is admitted for every
\* N <= MAX_REQUESTS and the (MAX_REQUESTS+1)th is answered 429.
C1_NthAdmittedThenRejected ==
  \A r \in Slots :
    PastLimiter(r) =>
      /\ Decisions(r) <= MAX_REQUESTS => admitted[r] /\ res[r].status # 429
      /\ Decisions(r) = MAX_REQUESTS + 1 => ~admitted[r] /\ res[r].status = 429

C1_Witness ==
  \E r \in Slots :
    /\ PastLimiter(r)
    /\ MAX_REQUESTS = MaxLimit
    /\ Decisions(r) = MAX_REQUESTS + 1
    /\ redis[req[r].ip].value = MAX_REQUESTS
    /\ res[r].status = 429

\* C2: a request whose Counter Store call (GET or MULTI/EXEC) failed is
\* handed to shortenUrl and never answered 429, whatever the counter holds.
C2_FailOpen ==
  \A r \in Slots :
    error[r] = "redis" => admitted[r] /\ res[r].status # 429

C2_Witness ==
  \E r \in Slots :
    /\ error[r] = "redis"
    /\ pc[r] = "shorten_find"
    /\ admitted[r]
    /\ redis[req[r].ip].value >= MAX_REQUESTS
    /\ \E q \in Slots : q # r /\ req[q].ip = req[r].ip /\ res[q].status = 429

\* C3: every counter that exists in the Counter Store carries an expiry.
C3_EveryCounterExpires ==
  \A ip \in Identities : redis[ip].value # Nil => redis[ip].ttl

\* C4: when an identity's counter has expired, the increment of the next
\* request restarts it at 1 with a fresh expiry and the request is admitted.
C4_RestartAtOneWithExpiry ==
  [][\A r \in Slots :
       (/\ pc[r] = "rl_multi" /\ pc'[r] # "rl_multi"
        /\ redis[req[r].ip].value = Nil
        /\ redis'[req[r].ip].value # Nil)
       => /\ redis'[req[r].ip] = [value |-> 1, ttl |-> TRUE]
          /\ admitted'[r]]_vars

\* C5: with at most MaxInFlight requests in flight, a counter never
\* exceeds MAX_REQUESTS + MaxInFlight - 1.
C5_BoundedOvershoot ==
  \A ip \in Identities : redis[ip].value <= MAX_REQUESTS + MaxInFlight - 1

C5_Witness ==
  \E ip \in Identities :
    /\ redis[ip].value = MAX_REQUESTS + MaxInFlight - 1
    /\ redis[ip].ttl
    /\ MAX_REQUESTS = MaxLimit

\* a creation request with a valid long_url and a custom code
CustomCreate(r) ==
  req[r].kind = "shorten" /\ body[r].long_url # "" /\ body[r].custom_code # ""

NewRow(r) ==
  [short_code |-> body[r].custom_code, long_url |-> body[r].long_url,
   click_count |-> 0, last_clicked_at |-> "null"]

\* C6: a creation request with a valid long_url and a custom code, the URL
\* Store answering: if a ShortLink with the code exists, 409 and the table
\* is unchanged; if the lookup found none, 201 and the created ShortLink
\* carries the custom code (a request is at shorten_create with a custom
\* code only after its lookup found none).
C6_CustomCodeCreatedOrConflict ==
  [][\A r \in Slots :
       CustomCreate(r) =>
         /\ (/\ pc[r] = "shorten_find" /\ pc'[r] # "shorten_find"
             /\ error'[r] # "db"
             /\ findUnique(shortenedURL, body[r].custom_code) # << >>)
            => /\ res'[r].status = 409
               /\ shortenedURL' = shortenedURL
         /\ (/\ pc[r] = "shorten_create" /\ pc'[r] = "done"
             /\ error'[r] # "db")
            => /\ res'[r] = [status |-> 201, body |-> body[r].custom_code]
               /\ shortenedURL' = Append(shortenedURL, NewRow(r))]_vars

\* C7: no two ShortLinks in the URL Store have the same short_code.
C7_ShortCodeUnique ==
  \A m, n \in 1..Len(shortenedURL) :
    m # n => shortenedURL[m].short_code # shortenedURL[n].short_code

\* two racing creates of one code: one inserted, the other refused
C7_Witness ==
  \E r, q \in Slots :
    /\ pc[r] = "done" /\ res[r].status = 201
    /\ pc[q] = "done" /\ error[q] = "P2002"
    /\ body[q].custom_code = res[r].body
    /\ Len(shortenedURL) = 1

Answered(r) == pc[r] = "done" /\ CustomCreate(r) /\ admitted[r] /\ error[r] # "db"

\* C8: among the admitted creation requests that carry the same custom
\* code (valid long_url, URL Store answering), one is answered 201 and
\* every other one 409, never another status.
C8_OneCreatedOthersConflict ==
  /\ \A r \in Slots : Answered(r) => res[r].status \in {201, 409}
  /\ \A r, q \in Slots :
       (/\ r # q /\ Answered(r) /\ Answered(q)
        /\ body[r].custom_code = body[q].custom_code)
       => ~(res[r].status = 201 /\ res[q].status = 201)

ClickCount(code) ==
  IF RowsOf(shortenedURL, code) = {} THEN 0
  ELSE shortenedURL[CHOOSE n \in RowsOf(shortenedURL, code) : TRUE].click_count

\* C9: every redirect that finds its record starts one click update, and
\* every update that completes adds exactly 1: per code, click_count plus
\* the updates still pending plus the updates that failed equals the
\* number of redirects that found the record.
C9_ClicksAccounted ==
  \A c \in Codes : ClickCount(c) + pending[c] + lost[c] = found[c]

C9_Witness ==
  \E c \in Codes :
    /\ found[c] = MaxClicks
    /\ ClickCount(c) = MaxClicks
    /\ pending[c] = 0

\* C10: a redirect whose lookup finds no ShortLink is answered 404 and
\* changes nothing in the URL Store: no row, no click update started.
C10_NotFoundNoMutation ==
  [][\A r \in Slots :
       (/\ pc[r] = "redirect_find" /\ pc'[r] = "done"
        /\ error'[r] # "db"
        /\ findUnique(shortenedURL, req[r].shortCode) = << >>)
       => /\ res'[r].status = 404
          /\ shortenedURL' = shortenedURL
          /\ pending' = pending]_vars

C10_Witness ==
  \E r \in Slots :
    /\ req[r].kind = "redirect"
    /\ res[r].status = 404
    /\ Len(shortenedURL) = 1
    /\ findUnique(shortenedURL, req[r].shortCode) = << >>

\* C11: a redirect whose lookup finds the record is answered 302 to the
\* stored long_url, and a click update that settles afterwards (resolved
\* or rejected) changes no response and reports no error to any request.
C11_UpdateFailureSwallowed ==
  [][/\ \A r \in Slots :
          (/\ pc[r] = "redirect_find" /\ pc'[r] = "done"
           /\ error'[r] # "db"
           /\ findUnique(shortenedURL, req[r].shortCode) # << >>)
          => res'[r] = [status |-> 302,
                        body |-> findUnique(shortenedURL, req[r].shortCode)[1].long_url]
     /\ (\E c \in Codes : pending'[c] < pending[c])
          => /\ res' = res
             /\ error' = error
             /\ pc' = pc]_vars

\* the only redirect of a code was answered 302 and its update failed
C11_Witness ==
  \E r \in Slots :
    /\ req[r].kind = "redirect"
    /\ res[r] = [status |-> 302, body |-> "u1"]
    /\ found[req[r].shortCode] = 1
    /\ lost[req[r].shortCode] = 1

Limiter == {"rl_get", "rl_multi"}

\* C12: a creation request moves rate limiter -> code lookup or generation
\* -> create -> 201: it enters the lookup or the create only after the
\* limiter admitted it, a custom code reaches the create only through the
\* lookup, 201 is sent only by the step that inserts the row, and a 429 is
\* sent only from the limiter's check, with the table untouched.
C12_StepsOrdered ==
  [][/\ \A r \in Slots :
          /\ (pc'[r] = "shorten_find" /\ pc[r] # "shorten_find")
               => pc[r] \in Limiter /\ admitted'[r]
          /\ (pc'[r] = "shorten_create" /\ pc[r] # "shorten_create")
               => /\ admitted'[r]
                  /\ IF body'[r].custom_code # "" THEN pc[r] = "shorten_find"
                                                  ELSE pc[r] \in Limiter
          /\ (res'[r].status = 201 /\ res[r].status # 201)
               => /\ pc[r] = "shorten_create"
                  /\ shortenedURL' = create(shortenedURL, body[r].long_url, short_code[r])
          /\ (res'[r].status = 429 /\ res[r].status # 429)
               => /\ pc[r] = "rl_get"
                  /\ ~admitted'[r]
                  /\ shortenedURL' = shortenedURL
     /\ shortenedURL' # shortenedURL
          => \E r \in Slots : pc[r] = "shorten_create" /\ res'[r].status = 201]_vars

\* one request rejected by the limiter beside one that went all the way
C12_Witness ==
  \E r, q \in Slots :
    /\ res[r].status = 429 /\ ~admitted[r]
    /\ res[q].status = 201 /\ body[q].custom_code # ""
    /\ Len(shortenedURL) = 1

\* C13: once a creation request for long_url L was answered 201 with the
\* code c, every GET /c answered afterwards (URL Store healthy) is a 302
\* redirect to L.
C13_RoundTrip ==
  [][\A r \in Slots :
       (/\ req[r].kind = "redirect"
        /\ pc[r] # "done" /\ pc'[r] = "done"
        /\ error'[r] # "db")
       => \A p \in created :
            p[1] = req[r].shortCode => res'[r] = [status |-> 302, body |-> p[2]]]_vars

\* the round trip of the codes that name no file of ../public
RoutedRoundTrip ==
  [][\A r \in Slots :
       (/\ pc[r] = "redirect_find" /\ pc'[r] = "done"
        /\ error'[r] # "db")
       => \A p \in created :
            p[1] = req[r].shortCode => res'[r] = [status |-> 302, body |-> p[2]]]_vars

\* C14: no step removes a ShortLink or changes its short_code or long_url;
\* a step that changes a row at all is a click update settling (started by
\* a redirect of that code), never the step of a request handler.
C14_RecordsImmutable ==
  [][/\ Len(shortenedURL') >= Len(shortenedURL)
     /\ \A n \in 1..Len(shortenedURL) :
          /\ shortenedURL'[n].short_code = shortenedURL[n].short_code
          /\ shortenedURL'[n].long_url = shortenedURL[n].long_url
          /\ shortenedURL'[n] # shortenedURL[n]
               => /\ shortenedURL[n].short_code \in Codes
                  /\ pending'[shortenedURL[n].short_code]
                       = pending[shortenedURL[n].short_code] - 1
                  /\ locals' = locals]_vars

\* a clicked ShortLink, and a later create of its code with another
\* long_url that was refused
C14_Witness ==
  \E n \in 1..Len(shortenedURL), q \in Slots :
    /\ shortenedURL[n].click_count > 0
    /\ body[q].custom_code = shortenedURL[n].short_code
    /\ body[q].long_url # shortenedURL[n].long_url
    /\ res[q].status = 409

\* C15: a ShortLink is inserted with click_count 0 and last_clicked_at
\* null; afterwards click_count is never negative and never decreases,
\* and last_clicked_at is null exactly when click_count is 0.
C15_ClickFieldsConsistent ==
  [][/\ \A n \in 1..Len(shortenedURL') :
          /\ shortenedURL'[n].click_count >= 0
          /\ shortenedURL'[n].last_clicked_at = "null"
               <=> shortenedURL'[n].click_count = 0
     /\ \A n \in 1..Len(shortenedURL) :
          shortenedURL'[n].click_count >= shortenedURL[n].click_count
     /\ \A n \in (Len(shortenedURL) + 1)..Len(shortenedURL') :
          /\ shortenedURL'[n].click_count = 0
          /\ shortenedURL'[n].last_clicked_at = "null"]_vars

\* a ShortLink clicked MaxClicks times
C15_Witness ==
  \E n \in 1..Len(shortenedURL) :
    /\ shortenedURL[n].click_count = MaxClicks
    /\ shortenedURL[n].last_clicked_at = "Date"
    /\ lost[shortenedURL[n].short_code] = 0

\* C16: while a counter exists, every step leaves its count unchanged or
\* raises it by exactly 1; a counter is created at 1 and disappears only
\* by expiring, never by a step of a request.
C16_CountNeverDecreases ==
  [][\A ip \in Identities :
       /\ (redis[ip].value # Nil /\ redis'[ip].value # Nil)
            => redis'[ip].value \in {redis[ip].value, redis[ip].value + 1}
       /\ (redis[ip].value = Nil /\ redis'[ip].value # Nil)
            => redis'[ip].value = 1
       /\ (redis[ip].value # Nil /\ redis'[ip].value = Nil)
            => redis[ip].ttl /\ locals' = locals]_vars

\* a counter raised step by step past the cap
C16_Witness ==
  \E ip \in Identities :
    /\ MAX_REQUESTS = MaxLimit
    /\ redis[ip].value = MAX_REQUESTS + 1
    /\ decided[ip] >= MAX_REQUESTS + 1

\* C17: a creation request whose long_url is missing or empty leaves the
\* limiter straight into a 400 response, with or without a custom_code:
\* it never waits on a lookup or a create, and the URL Store is unchanged.
C17_ValidationFirst ==
  [][\A r \in Slots :
       /\ (/\ pc[r] \in Limiter /\ pc'[r] \notin Limiter
           /\ res'[r].status # 429
           /\ body'[r].long_url = "")
            => /\ res'[r].status = 400
               /\ pc'[r] = "done"
               /\ shortenedURL' = shortenedURL
               /\ pending' = pending
       /\ pc'[r] \in {"shorten_find", "shorten_create"}
            => body'[r].long_url # ""]_vars

\* a 400 for a body that carries a custom code which is already taken
C17_Witness ==
  \E r \in Slots :
    /\ res[r].status = 400
    /\ body[r].custom_code # ""
    /\ findUnique(shortenedURL, body[r].custom_code) # << >>

StoreErrors == {"db", "P2002"}

\* C18: a request whose URL Store call fails is answered 500 with the
\* generic body and stops there; a 500 is the one response of its request
\* (no 201 before it) and inserts no row; the only error after which a
\* request keeps being processed is a Counter Store error in the limiter.
C18_StoreErrorIs500 ==
  [][\A r \in Slots :
       /\ (error'[r] \in StoreErrors /\ error[r] \notin StoreErrors)
            => /\ res'[r] = [status |-> 500, body |-> ""]
               /\ pc'[r] = "done"
       /\ (res'[r].status = 500 /\ res[r].status # 500)
            => /\ res[r] = NoRes
               /\ error'[r] \in StoreErrors
               /\ shortenedURL' = shortenedURL
               /\ created' = created
       /\ (error'[r] # "" /\ pc'[r] # "done")
            => /\ error'[r] = "redis"
               /\ req'[r].kind = "shorten"
               /\ admitted'[r]]_vars

\* a stats request answered 500 beside a creation request that goes on
\* after a Counter Store error
C18_Witness ==
  \E r, q \in Slots :
    /\ req[r].kind = "stats" /\ error[r] = "db" /\ res[r].status = 500
    /\ req[q].kind = "shorten" /\ error[q] = "redis" /\ pc[q] = "shorten_create"

\* C19: a transaction that runs on a counter which already exists carries
\* no EXPIRE: the expiry of an existing window is never set again.
C19_ExpiryOnlyAtCreation ==
  [][\A r \in Slots :
       (/\ pc[r] = "rl_multi" /\ pc'[r] # "rl_multi"
        /\ redis'[req[r].ip] # redis[req[r].ip]
        /\ redis[req[r].ip].value # Nil)
       => ~ExpireQueued(current[r])]_vars

\* C20: a creation request without custom code whose generated code is
\* the short_code of an existing ShortLink ends at its create: it is
\* answered 500, generates no second code, and the table (the existing
\* ShortLink and its long_url) is unchanged.
C20_CollisionIs500 ==
  [][\A r \in Slots :
       (/\ pc[r] = "shorten_create" /\ pc'[r] # "shorten_create"
        /\ body[r].custom_code = ""
        /\ RowsOf(shortenedURL, short_code[r]) # {})
       => /\ res'[r] = [status |-> 500, body |-> ""]
          /\ pc'[r] = "done"
          /\ shortenedURL' = shortenedURL]_vars

\* a generated code collided with the only ShortLink, which keeps its
\* own long_url
C20_Witness ==
  \E r \in Slots :
    /\ error[r] = "P2002"
    /\ body[r].custom_code = ""
    /\ Len(shortenedURL) = 1
    /\ shortenedURL[1].long_url # body[r].long_url

\* the count a key stands for: a missing key counts 0
Count(k) == IF k.value = Nil THEN 0 ELSE k.value

\* C21: the step that admits a creation request through a healthy Counter
\* Store raises its identity's count by exactly 1, before the body is
\* looked at; no later step of the request (lookup, create, any of the
\* responses 201, 400, 409, 500) touches the counter again.
C21_AdmissionCostsOne ==
  [][\A r \in Slots :
       /\ (pc[r] = "rl_multi" /\ pc'[r] # "rl_multi" /\ error'[r] # "redis")
            => /\ admitted'[r]
               /\ Count(redis'[req[r].ip]) = Count(redis[req[r].ip]) + 1
       /\ (pc[r] \in {"shorten_find", "shorten_create"} /\ pc'[r] # pc[r])
            => redis' = redis]_vars

\* three requests were admitted: the one that created the ShortLink, one
\* that failed validation and one in conflict; the count is 3
C21_Witness ==
  \E r, q \in Slots :
    /\ admitted[r] /\ res[r].status = 400
    /\ admitted[q] /\ res[q].status = 409
    /\ req[q].ip = req[r].ip
    /\ Len(shortenedURL) = 1
    /\ decided[req[r].ip] = 3
    /\ redis[req[r].ip].value = 3

\* C22: the step that answers 429 changes nothing in the Counter Store:
\* no count and no expiry, of any identity.
C22_RejectionLeavesCounter ==
  [][\A r \in Slots :
       (res'[r].status = 429 /\ res[r].status # 429)
       => /\ redis' = redis
          /\ pc[r] = "rl_get"
          /\ LimitExceeded(redis[req[r].ip].value)]_vars

\* two requests rejected one after the other, the count still at the cap
C22_Witness ==
  \E r, q \in Slots :
    /\ r # q
    /\ res[r].status = 429 /\ res[q].status = 429
    /\ req[r].ip = req[q].ip
    /\ redis[req[r].ip] = [value |-> MAX_REQUESTS, ttl |-> TRUE]

\* C23: a limiter step of a request changes no counter but the one of the
\* request's identity; its decision (429 or go on, and the count it
\* remembers) is a function of that counter alone; and a counter changes
\* only by a request of its identity or by expiring.
C23_CountersIsolated ==
  [][/\ \A r \in Slots :
          (pc[r] \in Limiter /\ pc'[r] # pc[r])
          => /\ \A ip \in Identities \ {req[r].ip} : redis'[ip] = redis[ip]
             /\ (pc[r] = "rl_get" /\ error'[r] # "redis")
                  => /\ res'[r].status = 429
                          <=> LimitExceeded(redis[req[r].ip].value)
                     /\ pc'[r] = "rl_multi"
                          => current'[r] = redis[req[r].ip].value
     /\ \A ip \in Identities :
          redis'[ip] # redis[ip]
          => \/ locals' = locals
             \/ \E r \in Slots :
                  req[r].ip = ip /\ pc[r] = "rl_multi" /\ pc'[r] # pc[r]]_vars

\* one identity rejected at its cap while the other is admitted on a
\* counter of 1
C23_Witness ==
  \E r, q \in Slots :
    /\ req[r].ip = "ip1" /\ res[r].status = 429
    /\ redis["ip1"].value >= MAX_REQUESTS
    /\ req[q].ip = "ip2" /\ admitted[q] /\ error[q] = ""
    /\ redis["ip2"].value = 1

Reads == {"redirect", "stats", "links"}

\* C24: a redirect, stats or list request is never routed through the
\* limiter: none of its steps reads or changes a counter or answers 429,
\* whatever its address's counter holds; a stats or list request also
\* leaves the URL Store (rows and click updates) unchanged.
C24_OnlyCreationLimited ==
  [][\A r \in Slots :
       (req'[r].kind \in Reads /\ pc'[r] # pc[r])
       => /\ pc'[r] \notin Limiter
          /\ current'[r] = Nil
          /\ res'[r].status # 429
          /\ redis' = redis
          /\ req'[r].kind \in {"stats", "links"}
               => shortenedURL' = shortenedURL /\ pending' = pending]_vars

\* an address at its cap: its creation request is rejected while its
\* redirect is served
C24_Witness ==
  \E r, q \in Slots :
    /\ req[r].kind = "redirect" /\ res[r].status = 302
    /\ req[q].kind = "shorten" /\ res[q].status = 429
    /\ req[q].ip = req[r].ip
    /\ redis[req[r].ip].value >= MAX_REQUESTS

====
